---- MODULE Spec2Model ----
(***************************************************************************)
(* News_Update: the query cache, the query strategist, the article search  *)
(* and the per-topic pipeline of news_intelligence.py as a state machine.  *)
(*                                                                         *)
(* Python strings are sequences of one-character strings.  Python values   *)
(* that end up in search_queries are tagged records [t, v]: t is the type  *)
(* ("str", "int", "set", "tuple", "list") and v its text.  An optional value   *)
(* (None or x) is the sequence <<>> or <<x>>.                              *)
(***************************************************************************)
EXTENDS Integers, Sequences, FiniteSets, TLC

(***************************************************************************)
(* Bounds of the model.                                                    *)
(***************************************************************************)
\* generate_search_strategy calls explored (datetime.now() ticks once a call)
MaxCalls == 3
\* characters of a topic create_cache_key is given
MaxTopicLen == 3
\* pieces (urls, brackets, blanks, letters) a model summary is made of
MaxTokens == 3
\* queries given to one search_news call
MaxSearchQueries == 3

(***************************************************************************)
(* Strings.                                                                *)
(***************************************************************************)
NL == "\n"
Whitespace == {" ", NL, "\t"}

\* str.lower() on one character (the letters the model's topics use)
LowerChar(c) ==
    CASE c = "A" -> "a" [] c = "I" -> "i" [] c = "N" -> "n" [] c = "E" -> "e"
      [] c = "W" -> "w" [] c = "S" -> "s" [] c = "X" -> "x" [] c = "Y" -> "y"
      [] c = "Z" -> "z" [] OTHER -> c

\* str.lower()
Lower(s) == [i \in 1..Len(s) |-> LowerChar(s[i])]

\* Python slice s[a:b] with 0-based a, b (empty when b <= a)
Slice(s, a, b) ==
    LET lo == IF a < 0 THEN 0 ELSE a
        hi == IF b > Len(s) THEN Len(s) ELSE b
    IN IF hi <= lo THEN <<>> ELSE SubSeq(s, lo + 1, hi)

\* str.strip(chars): drop leading and trailing characters of the set
RECURSIVE LStrip(_, _)
LStrip(s, chars) ==
    IF s # <<>> /\ Head(s) \in chars THEN LStrip(Tail(s), chars) ELSE s

RECURSIVE RStrip(_, _)
RStrip(s, chars) ==
    IF s # <<>> /\ s[Len(s)] \in chars
    THEN RStrip(SubSeq(s, 1, Len(s) - 1), chars) ELSE s

StripChars(s, chars) == RStrip(LStrip(s, chars), chars)

\* str.strip()
Strip(s) == StripChars(s, Whitespace)

\* whether s starts with the text old
StartsWith(s, old) ==
    Len(s) >= Len(old) /\ SubSeq(s, 1, Len(old)) = old

\* str.replace(old, ""): every non-overlapping occurrence, left to right
RECURSIVE Remove(_, _)
Remove(s, old) ==
    IF s = <<>> THEN <<>>
    ELSE IF StartsWith(s, old) THEN Remove(SubSeq(s, Len(old) + 1, Len(s)), old)
    ELSE <<Head(s)>> \o Remove(Tail(s), old)

\* str.find(c): 0-based index of the first c, -1 when absent
Find(s, c) ==
    IF \E i \in 1..Len(s) : s[i] = c
    THEN (CHOOSE i \in 1..Len(s) : s[i] = c /\ \A j \in 1..(i - 1) : s[j] # c) - 1
    ELSE -1

\* c in s
Contains(s, c) == \E i \in 1..Len(s) : s[i] = c

\* str.split(sep) for a one-character separator
RECURSIVE Split(_, _)
Split(s, sep) ==
    LET i == Find(s, sep)
    IN IF i < 0 THEN <<s>>
       ELSE <<Slice(s, 0, i)>> \o Split(Slice(s, i + 1, Len(s)), sep)

\* str(n) for a natural number
DigitChar(d) ==
    CASE d = 0 -> "0" [] d = 1 -> "1" [] d = 2 -> "2" [] d = 3 -> "3"
      [] d = 4 -> "4" [] d = 5 -> "5" [] d = 6 -> "6" [] d = 7 -> "7"
      [] d = 8 -> "8" [] OTHER -> "9"

RECURSIVE Decimal(_)
Decimal(n) ==
    IF n < 10 THEN <<DigitChar(n)>>
    ELSE Decimal(n \div 10) \o <<DigitChar(n % 10)>>

Digits == {"0", "1", "2", "3", "4", "5", "6", "7", "8", "9"}

(***************************************************************************)
(* Optional values and Python values.                                      *)
(***************************************************************************)
None == <<>>
Some(x) == <<x>>

PyStr(s) == [t |-> "str", v |-> s]
PyInt(s) == [t |-> "int", v |-> s]
PySet(s) == [t |-> "set", v |-> s]
PyTuple(s) == [t |-> "tuple", v |-> s]
PyList(s) == [t |-> "list", v |-> s]

\* the empty tuple ()
EmptyTuple == PyTuple(<<"(", ")">>)

\* json.dump can encode the value (a set is not JSON serializable)
Serializable(q) == q.t # "set"

(***************************************************************************)
(* create_cache_key                                                        *)
(***************************************************************************)
KeySeparator == <<"|", "m", "a", "x", "_", "q", "u", "e", "r", "i", "e", "s", ":">>

\* hashlib.md5(...).hexdigest(), taken as injective: the digest of a text
\* is the text under a tag
Md5(s) == <<"md5", s>>

normalized_query(user_query) == Strip(Lower(user_query))

\* create_cache_key without the normalization of line 53
create_cache_key_raw(user_query, max_queries) ==
    Md5(user_query \o KeySeparator \o Decimal(max_queries))

create_cache_key(user_query, max_queries) ==
    Md5(normalized_query(user_query) \o KeySeparator \o Decimal(max_queries))

\* one call: the arguments and the pair (cache_key, normalized_query) of
\* line 59
KeyCall(user_query, max_queries) ==
    [user_query |-> user_query, max_queries |-> max_queries,
     cache_key |-> create_cache_key(user_query, max_queries),
     normalized_query |-> normalized_query(user_query)]

(***************************************************************************)
(* Parsing the model's response (generate_search_strategy, lines 111-121). *)
(***************************************************************************)
\* One item of a list display, as eval reads it.  A string literal in
\* single or double quotes is a str; a run of digits an int; a brace
\* display of digits a set; () the empty tuple; anything else raises
\* (ok = FALSE).
EvalItem(item) ==
    LET s == Strip(item)
        n == Len(s)
        quoted(q) == n >= 2 /\ s[1] = q /\ s[n] = q
                     /\ \A i \in 2..(n - 1) : s[i] # q
    IN IF quoted("\"") \/ quoted("'")
       THEN [ok |-> TRUE, val |-> PyStr(SubSeq(s, 2, n - 1))]
       ELSE IF n >= 1 /\ \A i \in 1..n : s[i] \in Digits
       THEN [ok |-> TRUE, val |-> PyInt(s)]
       ELSE IF n >= 3 /\ s[1] = "{" /\ s[n] = "}"
               /\ \A i \in 2..(n - 1) : s[i] \in Digits
       THEN [ok |-> TRUE, val |-> PySet(s)]
       ELSE IF s = EmptyTuple.v
       THEN [ok |-> TRUE, val |-> EmptyTuple]
       ELSE [ok |-> FALSE, val |-> PyStr(s)]

\* Split the inside of a list display at the commas outside string literals.
\* quote is the open quote character as an optional value.
RECURSIVE SplitItems(_, _, _)
SplitItems(s, cur, quote) ==
    IF s = <<>> THEN <<cur>>
    ELSE LET c == Head(s)
         IN IF quote # None
            THEN SplitItems(Tail(s), Append(cur, c),
                            IF c = quote[1] THEN None ELSE quote)
            ELSE IF c = ","
            THEN <<cur>> \o SplitItems(Tail(s), <<>>, None)
            ELSE SplitItems(Tail(s), Append(cur, c),
                            IF c \in {"\"", "'"} THEN Some(c) ELSE None)

\* eval(list_str) for list_str = response_text[start:end].  The empty text
\* is a SyntaxError; "[]" is the empty list; a trailing comma is allowed.
Eval(list_str) ==
    LET n == Len(list_str)
        wellBracketed == n >= 2 /\ list_str[1] = "[" /\ list_str[n] = "]"
        body == IF wellBracketed THEN SubSeq(list_str, 2, n - 1) ELSE <<>>
        raw == SplitItems(body, <<>>, None)
        items == IF Len(raw) >= 2 /\ Strip(raw[Len(raw)]) = <<>>
                 THEN SubSeq(raw, 1, Len(raw) - 1) ELSE raw
        vals == [i \in 1..Len(items) |-> EvalItem(items[i])]
    IN IF ~wellBracketed THEN [ok |-> FALSE, val |-> <<>>]
       ELSE IF Strip(body) = <<>> THEN [ok |-> TRUE, val |-> <<>>]
       ELSE IF \A i \in 1..Len(vals) : vals[i].ok
       THEN [ok |-> TRUE, val |-> [i \in 1..Len(vals) |-> vals[i].val]]
       ELSE [ok |-> FALSE, val |-> <<>>]

BulletChars == {" ", "-", "\"", "'"}

\* [line.strip(' -"\'') for line in response_text.split('\n') if line.strip()]
RECURSIVE NonEmptyLines(_)
NonEmptyLines(ls) ==
    IF ls = <<>> THEN <<>>
    ELSE IF Strip(Head(ls)) # <<>>
    THEN <<PyStr(StripChars(Head(ls), BulletChars))>> \o NonEmptyLines(Tail(ls))
    ELSE NonEmptyLines(Tail(ls))

ParseLines(response_text, max_queries) ==
    Slice(NonEmptyLines(Split(response_text, NL)), 0, max_queries)

\* lines 111-121: the bracketed list when the text holds a '[' and a ']',
\* the lines otherwise; ok = FALSE when eval raises
ParseResponse(response_text, max_queries) ==
    IF Contains(response_text, "[") /\ Contains(response_text, "]")
    THEN Eval(Slice(response_text, Find(response_text, "["),
                    Find(response_text, "]") + 1))
    ELSE [ok |-> TRUE, val |-> ParseLines(response_text, max_queries)]

\* line 142 without its second replace
fallback_queries_news_only(user_query) ==
    <<PyStr(Remove(user_query, <<" ", "n", "e", "w", "s">>))>>

\* line 142: [user_query.replace(" news", "").replace(" headlines", "")]
fallback_queries(user_query) ==
    <<PyStr(Remove(Remove(user_query, <<" ", "n", "e", "w", "s">>),
                   <<" ", "h", "e", "a", "d", "l", "i", "n", "e", "s">>))>>

(***************************************************************************)
(* Inputs explored: topics, max_queries values, model responses.           *)
(***************************************************************************)
TopicAiNews == <<"a", "i", " ", "n", "e", "w", "s">>
\* the same topic in upper case with surrounding blanks: the same cache key
TopicAiNewsUpper == <<" ", "A", "I", " ", "n", "e", "w", "s", " ">>
TopicX == <<"x">>
\* the (user_query, max_queries) pairs generate_search_strategy is called
\* with: the first two share a cache key
Requests == {<<TopicAiNews, 5>>, <<TopicAiNewsUpper, 5>>, <<TopicX, 1>>}

\* ["a", "b"]
ResponseList == <<"[", "\"", "a", "\"", ",", " ", "\"", "b", "\"", "]">>
\* []
ResponseEmptyList == <<"[", "]">>
\* two lines: - a / b
ResponseLines == <<"-", " ", "a", NL, "b">>
\* [{1}] : evaluates to a list holding a set
ResponseSet == <<"[", "{", "1", "}", "]">>
\* [()] : evaluates to a list holding a tuple
ResponseTuple == <<"[", "(", ")", "]">>
Responses == {ResponseList, ResponseEmptyList, ResponseLines, ResponseSet}

\* client.messages.create: raises, or returns a text
ModelOutcomes ==
    {[ok |-> FALSE, text |-> <<>>]} \cup {[ok |-> TRUE, text |-> r] : r \in Responses}

\* what an operator types into a search_queries array of the cache file
EditedQueries == {<<PyStr(<<"h">>)>>}

(***************************************************************************)
(* The cache file (QUERY_CACHE_FILE) and the cache it decodes to.          *)
(*   kind "missing": no file; "partial": an empty or cut-short text that   *)
(*   json.load rejects; "json": the text of the mapping map.               *)
(***************************************************************************)
EmptyCache == [k \in {} |-> None]

MissingFile == [kind |-> "missing", map |-> EmptyCache]
PartialFile == [kind |-> "partial", map |-> EmptyCache]
JsonFile(cache) == [kind |-> "json", map |-> cache]

\* Further states the file can be put in from outside the program:
\*   "unreadable": open(..., 'r') raises IOError (no permission, a directory)
\*   "undecodable": bytes that are not UTF-8, f.read() raises UnicodeDecodeError
\*   "scalar": JSON text of a number or null (5, null)
\*   "list": JSON text of an array ([])
UnreadableFile == [kind |-> "unreadable", map |-> EmptyCache]
UndecodableFile == [kind |-> "undecodable", map |-> EmptyCache]
ScalarFile == [kind |-> "scalar", map |-> EmptyCache]
ListFile == [kind |-> "list", map |-> EmptyCache]

StoreStates ==
    {MissingFile, PartialFile, UnreadableFile, UndecodableFile, ScalarFile, ListFile}

\* load_query_cache returns a dict: the except clause of line 28 names
\* json.JSONDecodeError and IOError only
LoadsDict(f) == f.kind \in {"missing", "partial", "unreadable", "json"}

\* load_query_cache raises: UnicodeDecodeError from json.load (line 25), or
\* TypeError from len(cache) on a value without a length (line 26)
LoadRaises(f) == f.kind \in {"undecodable", "scalar"}

\* load_query_cache returns a list, which cache[cache_key] = cache_entry
\* (lines 133 and 156) cannot be assigned into
LoadsList(f) == f.kind = "list"

\* load_query_cache that never finds an entry (it returns {} for every file)
load_query_cache_empty(f) == EmptyCache

\* load_query_cache reads the file as it stands: {} when the file is
\* missing or json.load raises JSONDecodeError
load_query_cache(f) == IF f.kind = "json" THEN f.map ELSE EmptyCache

\* lines 133 and 156 left out: the entry is not put in the cache
PutNothing(cache, k, e) == cache

\* cache[cache_key] = cache_entry
Put(cache, k, e) ==
    [x \in (DOMAIN cache) \cup {k} |-> IF x = k THEN e ELSE cache[x]]

\* lines 124-131: the entry of a generated list
cache_entry(user_query, max_queries, search_queries, created_at, response_text) ==
    [original_query |-> user_query,
     normalized_query |-> normalized_query(user_query),
     max_queries |-> max_queries,
     search_queries |-> search_queries,
     created_at |-> created_at,
     claude_response |-> Some(response_text),
     error |-> None,
     fallback |-> FALSE]

\* lines 145-154: the entry of the fallback
fallback_entry(user_query, max_queries, created_at, error) ==
    [original_query |-> user_query,
     normalized_query |-> normalized_query(user_query),
     max_queries |-> max_queries,
     search_queries |-> fallback_queries(user_query),
     created_at |-> created_at,
     claude_response |-> None,
     error |-> Some(error),
     fallback |-> TRUE]

\* json.dump followed by json.load, for one value of search_queries: a str
\* or an int comes back as it was; a tuple is written as an array and
\* comes back as a list
JsonValue(q) == IF q = EmptyTuple THEN PyList(<<"[", "]">>) ELSE q

\* the same for an entry: its other fields are strings, an int, null and
\* true, which come back as they were
JsonEntry(e) ==
    [e EXCEPT !.search_queries = [i \in 1..Len(@) |-> JsonValue(@[i])]]

\* the mapping json.load gives for the text json.dump(cache, f) writes
JsonText(cache) == [k \in DOMAIN cache |-> JsonEntry(cache[k])]

\* json.dump raises TypeError on a cache holding a value it cannot encode
Dumpable(cache) ==
    \A k \in DOMAIN cache : \A i \in 1..Len(cache[k].search_queries) :
        Serializable(cache[k].search_queries[i])

(***************************************************************************)
(* search_news                                                             *)
(***************************************************************************)
\* Articles as NewsAPI returns them.  url is optional (a missing, null or
\* empty url); content is optional (NewsAPI sends null where it has none);
\* search_query is the tag line 272 adds.
Article(url, title, content) ==
    [url |-> url, title |-> title, content |-> content, search_query |-> None]

UrlA == <<"h", "t", "t", "p", ":", "/", "/", "a">>
UrlB == <<"h", "t", "t", "p", ":", "/", "/", "b">>
ArtA == Article(Some(UrlA), <<"A">>, Some(<<"c">>))
\* another article at the url of ArtA
ArtA2 == Article(Some(UrlA), <<"A", "2">>, Some(<<"c">>))
\* an article whose content is null
ArtB == Article(Some(UrlB), <<"B">>, None)
ArtNoUrl == Article(None, <<"N">>, Some(<<"c">>))

\* what requests.get gives for one query: it raises, it answers with a
\* status other than 200, or it answers 200 with a list of articles
Raises == [kind |-> "raise", status |-> 0, articles |-> <<>>]
Status(code) == [kind |-> "status", status |-> code, articles |-> <<>>]
Ok(articles) == [kind |-> "ok", status |-> 200, articles |-> articles]

SearchOutcomes ==
    {Raises, Status(429), Ok(<<>>), Ok(<<ArtA>>), Ok(<<ArtB, ArtA2>>),
     Ok(<<ArtNoUrl, ArtB>>), Ok(<<ArtA, ArtA2>>)}

SearchQueries == <<PyStr(<<"q", "1">>), PyStr(<<"q", "2">>), PyStr(<<"q", "3">>),
                   PyStr(<<"q", "4">>), PyStr(<<"q", "5">>)>>

\* the query lists search_news is given: the first n of SearchQueries
SearchInputs == {SubSeq(SearchQueries, 1, n) : n \in 0..MaxSearchQueries}

\* lines 271-272: article['search_query'] = query
Tag(articles, query) ==
    [i \in 1..Len(articles) |-> [articles[i] EXCEPT !.search_query = Some(query)]]

\* the loop of lines 247-286 without its try: the first failing request
\* ends the loop and the call
RECURSIVE FetchAborting(_, _)
FetchAborting(queries, outcomes) ==
    IF queries = <<>> THEN [articles |-> <<>>, requests |-> <<>>, raised |-> FALSE]
    ELSE IF Head(outcomes).kind # "ok"
    THEN [articles |-> <<>>, requests |-> <<Head(queries)>>, raised |-> TRUE]
    ELSE LET rest == FetchAborting(Tail(queries), Tail(outcomes))
         IN [articles |-> Tag(Head(outcomes).articles, Head(queries)) \o rest.articles,
             requests |-> <<Head(queries)>> \o rest.requests,
             raised |-> rest.raised]

\* the loop of lines 247-286: one request per query; a request that raises
\* (line 285) or answers another status than 200 (line 276) adds nothing
RECURSIVE Fetch(_, _)
Fetch(queries, outcomes) ==
    IF queries = <<>> THEN [articles |-> <<>>, requests |-> <<>>, raised |-> FALSE]
    ELSE LET rest == Fetch(Tail(queries), Tail(outcomes))
             got == IF Head(outcomes).kind = "ok"
                    THEN Tag(Head(outcomes).articles, Head(queries)) ELSE <<>>
         IN [articles |-> got \o rest.articles,
             requests |-> <<Head(queries)>> \o rest.requests,
             raised |-> rest.raised]

\* article.get('url') is truthy
HasUrl(a) == a.url # None /\ a.url[1] # <<>>

\* lines 289-294 keeping the last article of a url instead of the first
RECURSIVE DedupKeepLast(_, _)
DedupKeepLast(all, seen_urls) ==
    IF all = <<>> THEN <<>>
    ELSE LET a == Head(all)
         IN IF HasUrl(a) /\ \A i \in 1..Len(Tail(all)) : Tail(all)[i].url # a.url
            THEN <<a>> \o DedupKeepLast(Tail(all), seen_urls)
            ELSE DedupKeepLast(Tail(all), seen_urls)

\* lines 289-294: the first article of each url, in order
RECURSIVE Dedup(_, _)
Dedup(all, seen_urls) ==
    IF all = <<>> THEN <<>>
    ELSE LET a == Head(all)
         IN IF HasUrl(a) /\ a.url[1] \notin seen_urls
            THEN <<a>> \o Dedup(Tail(all), seen_urls \cup {a.url[1]})
            ELSE Dedup(Tail(all), seen_urls)

\* search_news: what it returns for the queries and the answers to them
search_news(queries, outcomes) ==
    LET fetched == Fetch(queries, outcomes)
    IN [raised |-> fetched.raised,
        requests |-> fetched.requests,
        articles |-> IF fetched.raised THEN <<>> ELSE Dedup(fetched.articles, {})]

(***************************************************************************)
(* synthesize_news and format_urls_as_links                                *)
(***************************************************************************)
NoArticlesMessage == "No recent news articles found for your query."
ErrorMessage == "Error processing news articles."

Http == <<"h", "t", "t", "p", ":", "/", "/">>
Https == <<"h", "t", "t", "p", "s", ":", "/", "/">>

\* the length of the longest run of characters outside stop at the head of s
RECURSIVE RunLength(_, _)
RunLength(s, stop) ==
    IF s = <<>> \/ Head(s) \in stop THEN 0 ELSE 1 + RunLength(Tail(s), stop)

\* The match of (https?://[^\s\)]+)(?![\)\]]) at the head of s, as its length
\* (0: no match).  The run after the scheme is as long as it can be with
\* the character after it neither ')' nor ']': the regex gives characters
\* back until the lookahead holds.
UrlMatchLength(s) ==
    LET scheme == IF StartsWith(s, Https) THEN Len(Https)
                  ELSE IF StartsWith(s, Http) THEN Len(Http) ELSE 0
        run == RunLength(SubSeq(s, scheme + 1, Len(s)), Whitespace \cup {")"})
        fits == {n \in 1..run :
                    scheme + n = Len(s) \/ s[scheme + n + 1] \notin {")", "]"}}
    IN IF scheme = 0 \/ fits = {} THEN 0
       ELSE scheme + (CHOOSE n \in fits : \A m \in fits : m <= n)

\* replace_url without the [:50] of line 396
LinkForFull(url, articles) ==
    LET hits == {i \in 1..Len(articles) : articles[i].url = Some(url)}
        label == IF hits = {} THEN <<"R", "e", "a", "d", " ", "M", "o", "r", "e">>
                 ELSE articles[CHOOSE i \in hits : \A j \in hits : i <= j].title
    IN <<"[">> \o label \o <<"]", "(">> \o url \o <<")">>

\* replace_url, lines 392-399: the title of the first article at the url,
\* cut to 50 characters, or "Read More"
LinkFor(url, articles) ==
    LET hits == {i \in 1..Len(articles) : articles[i].url = Some(url)}
        label == IF hits = {} THEN <<"R", "e", "a", "d", " ", "M", "o", "r", "e">>
                 ELSE Slice(articles[CHOOSE i \in hits : \A j \in hits : i <= j].title,
                            0, 50)
    IN <<"[">> \o label \o <<"]", "(">> \o url \o <<")">>

\* url_pattern.sub(replace_url, summary_text) from the text s on, prev being
\* the character before s as an optional value (the lookbehind (?<![\(\[]))
RECURSIVE SubUrls(_, _, _)
SubUrls(s, prev, articles) ==
    IF s = <<>> THEN <<>>
    ELSE LET n == IF prev # None /\ prev[1] \in {"(", "["} THEN 0
                  ELSE UrlMatchLength(s)
         IN IF n = 0
            THEN <<Head(s)>> \o SubUrls(Tail(s), Some(Head(s)), articles)
            ELSE LinkFor(SubSeq(s, 1, n), articles)
                 \o SubUrls(SubSeq(s, n + 1, Len(s)), Some(s[n]), articles)

format_urls_as_links(summary_text, articles) == SubUrls(summary_text, None, articles)

\* what synthesize_news returns or raises
Raised == [kind |-> "raise", sentinel |-> "", text |-> <<>>]
Sentinel(message) == [kind |-> "sentinel", sentinel |-> message, text |-> <<>>]
Digest(text) == [kind |-> "digest", sentinel |-> "", text |-> text]

\* line 324: article.get('content', 'No content')[:200] raises TypeError
\* when the article's content is null
PromptRaises(articles) ==
    \E i \in 1..Len(Slice(articles, 0, 25)) : articles[i].content = None

\* synthesize_news without the test of lines 310-311
CallsModelAlways(articles) == ~PromptRaises(articles)

\* synthesize_news reaches client.messages.create (line 361)
CallsModel(articles) == articles # <<>> /\ ~PromptRaises(articles)

\* synthesize_news without the try of lines 360-381: a failure of the model
\* call leaves the function
synthesize_news_untried(articles, max_headlines, outcome) ==
    IF articles = <<>> THEN Sentinel(NoArticlesMessage)
    ELSE IF PromptRaises(articles) THEN Raised
    ELSE IF ~outcome.ok THEN Raised
    ELSE Digest(format_urls_as_links(Strip(outcome.text),
                                     Slice(articles, 0, max_headlines)))

\* synthesize_news, lines 306-381; outcome is what client.messages.create
\* does (ModelOutcomes)
synthesize_news(articles, max_headlines, outcome) ==
    IF articles = <<>> THEN Sentinel(NoArticlesMessage)
    ELSE IF PromptRaises(articles) THEN Raised
    ELSE IF ~outcome.ok THEN Sentinel(ErrorMessage)
    ELSE Digest(format_urls_as_links(Strip(outcome.text),
                                     Slice(articles, 0, max_headlines)))

(***************************************************************************)
(* State.                                                                  *)
(***************************************************************************)
VARIABLES
    file,     \* the cache file
    pc,       \* "idle", or "dump": save_query_cache has opened the file for
              \* writing (which empties it) and json.dump is running
    frame,    \* the locals of the generate_search_strategy call in flight
    now,      \* datetime.now(), counted in calls
    ret,      \* what the last generate_search_strategy call returned
    last,     \* history: the last call (its arguments, the file it found,
              \* whether it called the model and what the model did, the
              \* path it took)
    gen,      \* history: per key, the last list a miss returned in this run
    first,    \* history: per key, the first entry written to the file
    seen,     \* what a concurrent invocation last read from the file
    found,    \* the last search_news call: its queries, the answers to its
              \* requests, the requests it made and what it returned
    mpc,      \* where main is: "off" (not running), "generate", "search",
              \* "synthesize", "notify", "done", or "crashed" (an exception
              \* left main)
    ti,       \* main: the index of the topic in news_topics
    summary,  \* main: what synthesize_news returned for the topic
    posts,    \* main: the issues it asked GitHub to create, and the topics
              \* it skipped
    synth,    \* the last synthesize_news call: the topic of main it was
              \* made for (0 outside main), its arguments, whether it
              \* called the model and what the model did, and its result
    keyed     \* two create_cache_key calls: their arguments and what each
              \* returned

vars == <<file, pc, frame, now, ret, last, gen, first, seen, found, mpc, ti,
          summary, posts, synth, keyed>>

mainVars == <<mpc, ti, summary, posts, synth, keyed>>

genVars == <<file, pc, frame, now, ret, last, gen, first>>

NoFrame ==
    [user_query |-> <<>>, max_queries |-> 0, cache_key |-> Md5(<<>>),
     cache |-> EmptyCache, queries |-> <<>>, in_try |-> FALSE]

\* no call of the model
NoOutcome == [ok |-> FALSE, text |-> <<>>]

NoCall ==
    [called |-> FALSE, user_query |-> <<>>, max_queries |-> 0,
     cache_key |-> Md5(<<>>), before |-> MissingFile, lm |-> FALSE,
     outcome |-> NoOutcome,
     path |-> "none", prev |-> None, saved |-> FALSE]

NoReturn == [kind |-> "none", queries |-> <<>>]
Value(q) == [kind |-> "value", queries |-> q]

NotSeen == [read |-> FALSE, kind |-> "missing", during |-> FALSE, neither |-> FALSE]

NoKeys == [called |-> FALSE, a |-> KeyCall(<<>>, 0), b |-> KeyCall(<<>>, 0)]

NoSynth ==
    [called |-> FALSE, topic |-> 0, articles |-> <<>>, max_headlines |-> 0,
     lm |-> FALSE, outcome |-> NoOutcome, result |-> Sentinel("")]

NoSearch ==
    [called |-> FALSE, queries |-> <<>>, outcomes |-> <<>>, requests |-> <<>>,
     raised |-> FALSE, articles |-> <<>>]

Init ==
    /\ file = MissingFile
    /\ pc = "idle"
    /\ frame = NoFrame
    /\ now = 0
    /\ ret = NoReturn
    /\ last = NoCall
    /\ gen = EmptyCache
    /\ first = EmptyCache
    /\ seen = NotSeen
    /\ found = NoSearch
    /\ mpc = "off"
    /\ ti = 0
    /\ summary = Sentinel("")
    /\ posts = <<>>
    /\ synth = NoSynth
    /\ keyed = NoKeys

(***************************************************************************)
(* generate_search_strategy                                                *)
(***************************************************************************)
\* the call returns to its caller: main goes on to search_news
Returned ==
    /\ mpc' = IF mpc = "generate" THEN "search" ELSE mpc
    /\ UNCHANGED <<ti, summary, posts, synth, keyed>>

\* history: a miss for key k returned q
Served(k, q, isFallback, saved) ==
    gen' = Put(gen, k, [queries |-> q, fallback |-> isFallback, saved |-> saved])

\* history: the entries of a cache written whole to the file
Written(cache) ==
    first' = [k \in (DOMAIN first) \cup (DOMAIN cache) |->
                 IF k \in DOMAIN first THEN first[k] ELSE cache[k]]

\* save_query_cache up to open(QUERY_CACHE_FILE, 'w'): when open raises
\* IOError the file is untouched and the call returns what it built; when
\* it succeeds the file is empty and json.dump starts
SaveOpen(opens, user_query, max_queries, key, cache, queries, inTry, isFallback) ==
    IF opens
    THEN /\ file' = PartialFile
         /\ pc' = "dump"
         /\ frame' = [user_query |-> user_query, max_queries |-> max_queries,
                      cache_key |-> key, cache |-> cache, queries |-> queries,
                      in_try |-> inTry]
         /\ UNCHANGED <<ret, gen, first, mainVars>>
    ELSE /\ file' = file
         /\ pc' = "idle"
         /\ frame' = NoFrame
         /\ ret' = Value(queries)
         /\ Served(key, queries, isFallback, FALSE)
         /\ Returned
         /\ UNCHANGED first

\* lines 66-78: the cache holds the key
GenerateHit(user_query, max_queries) ==
    LET cache == load_query_cache(file)
        key == create_cache_key(user_query, max_queries)
    IN /\ pc = "idle"
       /\ now < MaxCalls
       /\ LoadsDict(file)
       /\ key \in DOMAIN cache
       /\ now' = now + 1
       /\ ret' = Value(cache[key].search_queries)
       /\ last' = [called |-> TRUE, user_query |-> user_query,
                   max_queries |-> max_queries, cache_key |-> key,
                   before |-> file, lm |-> FALSE, outcome |-> NoOutcome,
                   path |-> "hit",
                   prev |-> IF key \in DOMAIN gen THEN Some(gen[key]) ELSE None,
                   saved |-> FALSE]
       /\ Returned
       /\ UNCHANGED <<file, pc, frame, gen, first, seen, found>>

\* lines 80-159 up to the open of the cache file: a miss calls the model,
\* parses its text (or builds the fallback), puts the entry in the loaded
\* cache and saves it
GenerateMiss(user_query, max_queries, outcome, opens) ==
    LET cache == load_query_cache(file)
        key == create_cache_key(user_query, max_queries)
        response_text == Strip(outcome.text)
        parsed == ParseResponse(response_text, max_queries)
        generated == outcome.ok /\ parsed.ok
        entry == IF generated
                 THEN cache_entry(user_query, max_queries, parsed.val, now + 1,
                                  response_text)
                 ELSE fallback_entry(user_query, max_queries, now + 1,
                                     IF outcome.ok THEN "SyntaxError" ELSE "APIError")
    IN /\ pc = "idle"
       /\ now < MaxCalls
       /\ LoadsDict(file)
       /\ key \notin DOMAIN cache
       /\ now' = now + 1
       /\ last' = [called |-> TRUE, user_query |-> user_query,
                   max_queries |-> max_queries, cache_key |-> key,
                   before |-> file, lm |-> TRUE, outcome |-> outcome,
                   path |-> IF generated THEN "generated" ELSE "fallback",
                   prev |-> IF key \in DOMAIN gen THEN Some(gen[key]) ELSE None,
                   saved |-> FALSE]
       /\ SaveOpen(opens, user_query, max_queries, key, Put(cache, key, entry),
                   entry.search_queries, generated, ~generated)
       /\ UNCHANGED <<seen, found>>

\* json.dump wrote the whole cache: save_query_cache returns True and the
\* call returns its list
DumpDone ==
    /\ pc = "dump"
    /\ Dumpable(frame.cache)
    /\ file' = JsonFile(JsonText(frame.cache))
    /\ pc' = "idle"
    /\ frame' = NoFrame
    /\ ret' = Value(frame.queries)
    /\ last' = [last EXCEPT !.saved = TRUE]
    /\ Served(frame.cache_key, frame.queries, last.path = "fallback", TRUE)
    /\ Written(JsonText(frame.cache))
    /\ Returned
    /\ UNCHANGED <<now, seen, found>>

\* a write raises IOError: the file keeps the part written so far,
\* save_query_cache returns False and the call returns its list
DumpIOError ==
    /\ pc = "dump"
    /\ file' = PartialFile
    /\ pc' = "idle"
    /\ frame' = NoFrame
    /\ ret' = Value(frame.queries)
    /\ Served(frame.cache_key, frame.queries, last.path = "fallback", FALSE)
    /\ Returned
    /\ UNCHANGED <<now, last, first, seen, found>>

\* json.dump raises TypeError on a value it cannot encode: the file keeps
\* the part written so far, save_query_cache does not catch the error and
\* the except clause of line 139 replaces the entry by the fallback and
\* saves again
DumpTypeError(opens) ==
    LET entry == fallback_entry(frame.user_query, frame.max_queries, now, "TypeError")
    IN /\ pc = "dump"
       /\ frame.in_try
       /\ ~Dumpable(frame.cache)
       /\ last' = [last EXCEPT !.path = "fallback"]
       /\ IF opens
          THEN /\ file' = PartialFile
               /\ pc' = "dump"
               /\ frame' = [frame EXCEPT !.cache = Put(frame.cache, frame.cache_key, entry),
                                         !.queries = entry.search_queries,
                                         !.in_try = FALSE]
               /\ UNCHANGED <<ret, gen, first, mainVars>>
          ELSE /\ file' = PartialFile
               /\ pc' = "idle"
               /\ frame' = NoFrame
               /\ ret' = Value(entry.search_queries)
               /\ Served(frame.cache_key, entry.search_queries, TRUE, FALSE)
               /\ Returned
               /\ UNCHANGED first
       /\ UNCHANGED <<now, seen, found>>

\* the process dies while json.dump runs: the file keeps the part written,
\* and the next run starts with what the file holds
Crash ==
    /\ pc = "dump"
    /\ file' = PartialFile
    /\ pc' = "idle"
    /\ frame' = NoFrame
    /\ ret' = [kind |-> "crash", queries |-> <<>>]
    /\ gen' = EmptyCache
    /\ UNCHANGED <<now, last, first, seen, found, mainVars>>

\* lines 66-67 and 133-157 on a file load_query_cache does not turn into a
\* dict.  When load_query_cache raises, the exception leaves the call before
\* the model is called.  When it returns a list, the key is not in it, the
\* model is called, and cache[cache_key] = cache_entry raises TypeError at
\* line 133 (or the model call raises); the except clause of line 139 runs
\* and raises the same TypeError at line 156, which leaves the call.
GenerateRaise(user_query, max_queries) ==
    /\ pc = "idle"
    /\ now < MaxCalls
    /\ ~LoadsDict(file)
    /\ now' = now + 1
    /\ ret' = [kind |-> "raise", queries |-> <<>>]
    /\ last' = [called |-> TRUE, user_query |-> user_query,
                max_queries |-> max_queries,
                cache_key |-> create_cache_key(user_query, max_queries),
                before |-> file, lm |-> LoadsList(file), outcome |-> NoOutcome,
                path |-> "raise",
                prev |-> None, saved |-> FALSE]
    /\ mpc' = IF mpc = "generate" THEN "crashed" ELSE mpc
    /\ UNCHANGED <<file, pc, frame, gen, first, seen, found, ti, summary, posts,
                   synth, keyed>>

\* the file is replaced from outside the program between two calls (a hand
\* edit gone wrong, another program, a change of permissions)
StoreFault(f) ==
    /\ pc = "idle"
    /\ file # f
    /\ file' = f
    /\ last' = NoCall
    /\ ret' = NoReturn
    /\ UNCHANGED <<pc, frame, now, gen, first, seen, found, mainVars>>

(***************************************************************************)
(* The operator and a concurrent invocation.                               *)
(***************************************************************************)
\* view_cache_stats, lines 217-218: "To edit search queries, modify the
\* 'search_queries' arrays" of the cache file
OperatorEdit(k, q) ==
    /\ pc = "idle"
    /\ file.kind = "json"
    /\ k \in DOMAIN file.map
    /\ file.map[k].search_queries # q
    /\ file' = JsonFile([file.map EXCEPT ![k].search_queries = q])
    /\ first' = [x \in (DOMAIN first) \cup {k} |->
                    IF x = k THEN file'.map[k] ELSE first[x]]
    /\ gen' = [x \in (DOMAIN gen) \ {k} |-> gen[x]]
    /\ last' = NoCall
    /\ ret' = NoReturn
    /\ UNCHANGED <<pc, frame, now, seen, found, mainVars>>

\* another invocation (view_cache_stats) loads the file at any moment; the
\* history notes whether a save was running and whether the cache it
\* loaded is neither the one the file held before the save nor the one
\* being saved
ReaderLoad ==
    /\ seen' = [read |-> TRUE, kind |-> file.kind, during |-> pc = "dump",
                neither |-> /\ pc = "dump"
                            /\ load_query_cache(file) # load_query_cache(last.before)
                            /\ load_query_cache(file) # frame.cache]
    /\ UNCHANGED <<genVars, found, mainVars>>

(***************************************************************************)
(* create_cache_key as an operation.                                       *)
(***************************************************************************)
\* x|max_queries:1 : a topic that holds the separator of the key's input
TopicWithSeparator == TopicX \o KeySeparator \o <<"1">>

\* the topics: every text of up to MaxTopicLen characters out of a letter
\* in both cases and the blank, and the topics of the other operations
KeyTopics ==
    UNION {[1..n -> {"x", "X", " "}] : n \in 0..MaxTopicLen}
        \cup {TopicAiNews, TopicAiNewsUpper, TopicWithSeparator}

\* the values of max_queries: one and two digits, one a prefix of another
KeyCounts == {1, 5, 15}

\* two calls, with the arguments of each drawn from the inputs
KeyPair(q1, n1, q2, n2) ==
    /\ ~keyed.called
    /\ keyed' = [called |-> TRUE, a |-> KeyCall(q1, n1), b |-> KeyCall(q2, n2)]
    /\ UNCHANGED <<genVars, seen, found, mpc, ti, summary, posts, synth>>

NextKey ==
    /\ ~keyed.called
    /\ \E q1 \in KeyTopics, n1 \in KeyCounts, q2 \in KeyTopics, n2 \in KeyCounts :
          KeyPair(q1, n1, q2, n2)

\* create_cache_key called on every pair of inputs
SpecKey == Init /\ [][NextKey]_vars

(***************************************************************************)
(* synthesize_news as an operation.                                        *)
(***************************************************************************)
SynthCall(topic, articles, max_headlines, outcome) ==
    synth' = [called |-> TRUE, topic |-> topic, articles |-> articles,
              max_headlines |-> max_headlines,
              lm |-> CallsModel(articles),
              outcome |-> IF CallsModel(articles) THEN outcome ELSE NoOutcome,
              result |-> synthesize_news(articles, max_headlines, outcome)]

\* an article whose title is longer than 50 characters
UrlL == <<"h", "t", "t", "p", "s", ":", "/", "/", "l">>
LongTitle == [i \in 1..51 |-> "t"]
ArtLong == Article(Some(UrlL), LongTitle, Some(<<"c">>))

\* the article lists synthesize_news is given
SynthArticles ==
    {<<>>, <<ArtB>>, <<ArtA>>, <<ArtLong, ArtA>>, <<ArtNoUrl, ArtA>>}

\* the values of max_headlines
SynthHeadlines == {1, 2}

\* a link the model wrote itself: [A](http://a)
LinkedA == <<"[", "A", "]", "(">> \o UrlA \o <<")">>

\* the pieces of a summary the model writes
Tokens ==
    {UrlA, UrlL, LinkedA, <<"(">>, <<")">>, <<"[">>, <<"]">>, <<" ">>, <<"x">>}

RECURSIVE Concat(_)
Concat(ts) == IF ts = <<>> THEN <<>> ELSE Head(ts) \o Concat(Tail(ts))

\* the summaries: every text of up to MaxTokens pieces
RawTexts == {Concat(ts) : ts \in UNION {[1..n -> Tokens] : n \in 0..MaxTokens}}

\* client.messages.create in synthesize_news: raises, or returns a text
SynthOutcomes ==
    {[ok |-> FALSE, text |-> <<>>]} \cup {[ok |-> TRUE, text |-> r] : r \in RawTexts}

\* one call, with the arguments and the model's answer drawn from the inputs
Synthesize(articles, max_headlines, outcome) ==
    /\ ~synth.called
    /\ SynthCall(0, articles, max_headlines, outcome)
    /\ UNCHANGED <<genVars, seen, found, mpc, ti, summary, posts, keyed>>

NextSynth ==
    /\ ~synth.called
    /\ \E articles \in SynthArticles, max_headlines \in SynthHeadlines,
          outcome \in SynthOutcomes : Synthesize(articles, max_headlines, outcome)

\* synthesize_news called with every article list and every model answer
SpecSynth == Init /\ [][NextSynth]_vars

(***************************************************************************)
(* search_news as an operation.                                            *)
(***************************************************************************)
SearchCall(queries, outcomes) ==
    LET r == search_news(queries, outcomes)
    IN found' = [called |-> TRUE, queries |-> queries, outcomes |-> outcomes,
                 requests |-> r.requests, raised |-> r.raised,
                 articles |-> r.articles]

\* one call, with the queries and the answers drawn from the inputs
Search(queries, outcomes) ==
    /\ ~found.called
    /\ SearchCall(queries, outcomes)
    /\ UNCHANGED <<genVars, seen, mainVars>>

NextSearch ==
    \E queries \in SearchInputs :
        \E outcomes \in [1..Len(queries) -> SearchOutcomes] : Search(queries, outcomes)

\* search_news called with every list of queries and every answer to each
SpecSearch == Init /\ [][NextSearch]_vars

Generate ==
    \E r \in Requests :
        \/ GenerateHit(r[1], r[2])
        \/ \E o \in ModelOutcomes, opens \in BOOLEAN : GenerateMiss(r[1], r[2], o, opens)

Next ==
    \/ Generate
    \/ DumpDone
    \/ DumpIOError
    \/ \E opens \in BOOLEAN : DumpTypeError(opens)
    \/ Crash
    \/ \E k \in DOMAIN load_query_cache(file), q \in EditedQueries : OperatorEdit(k, q)

Spec == Init /\ [][Next]_vars

\* the same with an invocation reading the file while this one runs
SpecReader == Init /\ [][Next \/ ReaderLoad]_vars

\* what the model answers where the saved entry is read back
RoundTripOutcomes ==
    {[ok |-> FALSE, text |-> <<>>], [ok |-> TRUE, text |-> ResponseList],
     [ok |-> TRUE, text |-> ResponseLines], [ok |-> TRUE, text |-> ResponseSet],
     [ok |-> TRUE, text |-> ResponseTuple]}

NextRoundTrip ==
    \/ \E r \in Requests : GenerateHit(r[1], r[2])
    \/ \E r \in Requests, o \in RoundTripOutcomes, opens \in BOOLEAN :
          GenerateMiss(r[1], r[2], o, opens)
    \/ DumpDone
    \/ DumpIOError
    \/ \E opens \in BOOLEAN : DumpTypeError(opens)

\* calls that build an entry, save it and load it again
SpecRoundTrip == Init /\ [][NextRoundTrip]_vars

\* max_queries=5, the default of line 61, which main calls
\* generate_search_strategy with
DefaultMaxQueries == 5

\* topics with the words line 142 removes
SuffixNews == <<" ", "n", "e", "w", "s">>
SuffixHeadlines == <<" ", "h", "e", "a", "d", "l", "i", "n", "e", "s">>
\* xyz news
TopicXyzNews == <<"x", "y", "z">> \o SuffixNews
\* x headlines
TopicHeadlines == TopicX \o SuffixHeadlines
\* x headlines news
TopicBoth == TopicX \o SuffixHeadlines \o SuffixNews
\* x news news
TopicTwice == TopicX \o SuffixNews \o SuffixNews
\* news x : the word without the blank before it
TopicNewsFirst == <<"n", "e", "w", "s", " ", "x">>

ParseTopics ==
    {TopicXyzNews, TopicHeadlines, TopicBoth, TopicTwice, TopicNewsFirst,
     TopicAiNewsUpper}

ParseRequests == {<<t, n>> : t \in ParseTopics, n \in {1, DefaultMaxQueries}}

\* ]a[ : a ']' before the first '['
ResponseReversed == <<"]", "a", "[">>
\* [a] : a bracketed text that is not a list of strings (a is no name eval knows)
ResponseNames == <<"[", "a", "]">>

\* what the model answers where the parsing is looked at
ParseOutcomes ==
    {[ok |-> FALSE, text |-> <<>>], [ok |-> TRUE, text |-> ResponseList],
     [ok |-> TRUE, text |-> ResponseLines], [ok |-> TRUE, text |-> ResponseReversed],
     [ok |-> TRUE, text |-> ResponseNames]}

NextParse ==
    \/ /\ ~last.called
       /\ \E r \in ParseRequests, o \in ParseOutcomes, opens \in BOOLEAN :
             GenerateMiss(r[1], r[2], o, opens)
    \/ DumpDone
    \/ DumpIOError

\* one generate_search_strategy call, a miss, on every topic and answer
SpecParse == Init /\ [][NextParse]_vars

\* what the model answers where the file is spoilt between calls
CorruptOutcomes ==
    {[ok |-> FALSE, text |-> <<>>], [ok |-> TRUE, text |-> ResponseList]}

NextCorrupt ==
    \/ StoreFault(PartialFile)
    \/ \E r \in Requests : GenerateHit(r[1], r[2])
    \/ \E r \in Requests, o \in CorruptOutcomes, opens \in BOOLEAN :
          GenerateMiss(r[1], r[2], o, opens)
    \/ DumpDone
    \/ DumpIOError

\* generate_search_strategy calls over a file that a hand edit can leave
\* unparseable between them
SpecCorrupt == Init /\ [][NextCorrupt]_vars

NextStore ==
    \/ \E f \in StoreStates : StoreFault(f)
    \/ Generate
    \/ \E r \in Requests : GenerateRaise(r[1], r[2])
    \/ DumpDone
    \/ DumpIOError
    \/ \E opens \in BOOLEAN : DumpTypeError(opens)

\* generate_search_strategy calls over a file that is put in any state
\* between them
SpecStore == Init /\ [][NextStore]_vars

(***************************************************************************)
(* main: the topics one after the other.                                   *)
(***************************************************************************)
\* the topics of main (the source lists five; two stand for them)
news_topics == <<TopicAiNews, TopicX>>

MAX_HEADLINES == 5

\* what the model answers in a run of main
MainModelOutcomes ==
    {[ok |-> FALSE, text |-> <<>>], [ok |-> TRUE, text |-> ResponseList],
     [ok |-> TRUE, text |-> ResponseEmptyList], [ok |-> TRUE, text |-> ResponseSet]}

\* what NewsAPI answers in a run of main
MainSearchOutcomes == {Raises, Ok(<<>>), Ok(<<ArtA>>), Ok(<<ArtB>>)}

\* the summary the model writes: a line with a bare url
SummaryText == <<"A", NL>> \o UrlA
MainSummaryOutcomes ==
    {[ok |-> FALSE, text |-> <<>>], [ok |-> TRUE, text |-> SummaryText]}

\* the for loop of line 530 goes to the next topic
NextTopic ==
    /\ ti' = ti + 1
    /\ mpc' = IF ti < Len(news_topics) THEN "generate" ELSE "done"

\* lines 515-530: view_cache_stats prints, then the loop starts
MainStart ==
    /\ mpc = "off"
    /\ pc = "idle"
    /\ mpc' = "generate"
    /\ ti' = 1
    /\ UNCHANGED <<genVars, seen, found, summary, posts, synth, keyed>>

\* line 548: generate_search_strategy(NEWS_QUERY)
MainGenerate ==
    /\ mpc = "generate"
    /\ \/ GenerateHit(news_topics[ti], DefaultMaxQueries)
       \/ \E o \in MainModelOutcomes, opens \in BOOLEAN :
             GenerateMiss(news_topics[ti], DefaultMaxQueries, o, opens)

\* line 553: search_news(search_queries, ...)
MainSearch ==
    /\ mpc = "search"
    /\ \E outcomes \in [1..Len(ret.queries) -> MainSearchOutcomes] :
          SearchCall(ret.queries, outcomes)
    /\ mpc' = IF found'.raised THEN "crashed" ELSE "synthesize"
    /\ UNCHANGED <<genVars, seen, ti, summary, posts, synth, keyed>>

\* line 558: synthesize_news(articles, NEWS_QUERY, max_headlines=MAX_HEADLINES);
\* an exception it raises leaves main
MainSynthesize ==
    /\ mpc = "synthesize"
    /\ \E o \in MainSummaryOutcomes :
          /\ SynthCall(ti, found.articles, MAX_HEADLINES, o)
          /\ summary' = synth'.result
    /\ mpc' = IF summary'.kind = "raise" THEN "crashed" ELSE "notify"
    /\ UNCHANGED <<genVars, seen, found, ti, posts, keyed>>

\* lines 561-568: no articles, no issue
MainSkip ==
    /\ mpc = "notify"
    /\ Len(found.articles) = 0
    /\ posts' = Append(posts, [topic |-> ti, kind |-> "skip", body |-> summary,
                               created |-> FALSE,
                               synthesized |-> synth.called /\ synth.topic = ti])
    /\ NextTopic
    /\ UNCHANGED <<genVars, seen, found, summary, synth, keyed>>

\* lines 570-586 with USE_SINGLE_ISSUE = False: create_github_issue, which
\* returns None when GitHub does not answer 201 or the request raises
MainPublish(created) ==
    /\ mpc = "notify"
    /\ Len(found.articles) # 0
    /\ posts' = Append(posts, [topic |-> ti, kind |-> "issue", body |-> summary,
                               created |-> created,
                               synthesized |-> synth.called /\ synth.topic = ti])
    /\ NextTopic
    /\ UNCHANGED <<genVars, seen, found, summary, synth, keyed>>

NextMain ==
    \/ MainStart
    \/ MainGenerate
    \/ mpc = "generate" /\ DumpDone
    \/ mpc = "generate" /\ DumpIOError
    \/ mpc = "generate" /\ \E opens \in BOOLEAN : DumpTypeError(opens)
    \/ MainSearch
    \/ MainSynthesize
    \/ MainSkip
    \/ \E created \in BOOLEAN : MainPublish(created)

\* one run of main over news_topics
SpecMain == Init /\ [][NextMain]_vars
(***************************************************************************)
(* Properties.                                                             *)
(***************************************************************************)
\* the cache the last call found in the file
CacheBefore == load_query_cache(last.before)

\* the last call has returned
Returns == pc = "idle" /\ last.called /\ ret.kind = "value"

\* C1: a call that finds an entry under its key in the file returns that
\* entry's search_queries as they stand in the file, does not call the
\* model and leaves the file as it was.
C1_CacheHit ==
    (Returns /\ last.before.kind = "json"
             /\ last.cache_key \in DOMAIN last.before.map)
        => /\ ret.queries = last.before.map[last.cache_key].search_queries
           /\ ~last.lm
           /\ file = last.before

\* a hit on an entry whose search_queries the operator has edited, asked
\* for under another spelling of the topic than the one that wrote it
C1_Witness ==
    /\ Returns
    /\ last.path = "hit"
    /\ ret.queries \in EditedQueries
    /\ last.before.map[last.cache_key].original_query # last.user_query

\* C2: an entry, once in the file under a key, is never replaced or
\* changed by generate_search_strategy calls: whatever the file holds under
\* a key is the first entry written there.
C2_EntryImmutable ==
    \A k \in DOMAIN first :
        k \in DOMAIN load_query_cache(file) => file.map[k] = first[k]

\* C3: a call that takes the fallback path and saves leaves an entry with
\* fallback set and an error, and a later call for a key whose last miss
\* took the fallback returns that fallback list without calling the model.
C3_FailureCached ==
    /\ (Returns /\ last.path = "fallback" /\ last.saved)
           => /\ last.cache_key \in DOMAIN load_query_cache(file)
              /\ file.map[last.cache_key].fallback
              /\ file.map[last.cache_key].error # None
    /\ (Returns /\ last.prev # None /\ last.prev[1].fallback)
           => /\ ~last.lm
              /\ ret.queries = last.prev[1].queries

\* C4: generate_search_strategy never returns an empty list.
C4_NeverEmpty == Returns => Len(ret.queries) >= 1

\* C8: after a crash during a call the file still holds every entry it
\* held when the call began (the entries of the completed requests).
C8_CrashSafe ==
    (ret.kind = "crash" /\ pc = "idle")
        => \A k \in DOMAIN CacheBefore :
               /\ k \in DOMAIN load_query_cache(file)
               /\ load_query_cache(file)[k] = CacheBefore[k]

\* C9: an invocation that reads the file while another one saves it loads
\* the whole cache of before the save or the whole new cache, never an
\* empty or cut-short file.
C9_AtomicPersist ==
    (seen.read /\ seen.during) => (seen.kind # "partial" \/ ~seen.neither)

\* C10: a call whose save failed still returns a list, and a later call of
\* the same run for a key whose last miss was not saved returns that list
\* without calling the model.
C10_UnsavedEntryKept ==
    /\ (pc = "idle" /\ last.called /\ last.lm /\ ~last.saved /\ ret.kind # "crash")
           => ret.kind = "value"
    /\ (Returns /\ last.prev # None /\ ~last.prev[1].saved)
           => /\ ~last.lm
              /\ ret.queries = last.prev[1].queries

(***************************************************************************)
(* Properties of the cache file.                                           *)
(***************************************************************************)
\* C11: whatever state the call finds the file in (missing, unreadable,
\* undecodable, not JSON, JSON but not a mapping), load_query_cache gives
\* an empty cache and the call goes on as a miss: it calls the model and
\* returns a list, no exception leaves it.
C11_LoadNeverFails ==
    (pc = "idle" /\ last.called /\ last.before.kind # "json")
        => /\ ret.kind = "value"
           /\ last.lm

\* C12: when a call has put an entry in the cache and saved it, the cache
\* loaded from the file holds under the same key an entry equal in every
\* field to the one put in.
C12_RoundTrip ==
    [][(pc = "dump" /\ pc' = "idle" /\ file'.kind = "json")
          => /\ frame.cache_key \in DOMAIN load_query_cache(file')
             /\ load_query_cache(file')[frame.cache_key]
                    = frame.cache[frame.cache_key]]_vars

\* C18: the key is a function of the lowercased and trimmed topic and the
\* count.  Two calls whose topics are equal once lowercased and trimmed
\* (the same topic, or topics that differ in case or in blanks around
\* them) and whose counts are equal return the same key; two calls whose
\* lowercased and trimmed topics differ, or whose counts differ, return
\* different keys (md5 taken as injective).
C18_KeyFunction ==
    keyed.called =>
        LET sameTopic == Strip(Lower(keyed.a.user_query))
                            = Strip(Lower(keyed.b.user_query))
            sameCount == keyed.a.max_queries = keyed.b.max_queries
        IN (sameTopic /\ sameCount) <=> (keyed.a.cache_key = keyed.b.cache_key)

\* "ai news" and " AI news " with the same count: one key; and the calls
\* return the lowercased and trimmed topic
C18_Witness ==
    /\ keyed.called
    /\ keyed.a.user_query = TopicAiNews
    /\ keyed.b.user_query = TopicAiNewsUpper
    /\ keyed.a.max_queries = keyed.b.max_queries
    /\ keyed.a.cache_key = keyed.b.cache_key
    /\ keyed.b.normalized_query = TopicAiNews

\* C19: a call that misses and whose model call fails returns exactly one
\* query, the topic with the occurrences of " news" removed and then those
\* of " headlines" ("xyz news" gives "xyz"), whether or not the save works.
C19_FallbackQuery ==
    (Returns /\ last.lm /\ ~last.outcome.ok)
        => /\ Len(ret.queries) = 1
           /\ ret.queries[1] = PyStr(Remove(Remove(last.user_query, SuffixNews),
                                            SuffixHeadlines))
           /\ last.path = "fallback"

\* "xyz news" with the model call raising gives ["xyz"]
C19_Witness ==
    /\ Returns
    /\ last.lm
    /\ ~last.outcome.ok
    /\ last.user_query = TopicXyzNews
    /\ ret.queries = <<PyStr(<<"x", "y", "z">>)>>

\* the text from the first '[' to the first ']' of the response evaluates
\* to a list of strings
WellFormedList(response_text) ==
    /\ Contains(response_text, "[")
    /\ Contains(response_text, "]")
    /\ LET e == Eval(Slice(response_text, Find(response_text, "["),
                           Find(response_text, "]") + 1))
       IN e.ok /\ \A i \in 1..Len(e.val) : e.val[i].t = "str"

\* C20: a call that misses and whose model call succeeds with a response
\* that holds no well-formed bracketed list returns the lines of the
\* response (non-empty lines, bullets and quotes stripped, at most
\* max_queries of them) with an entry that is no fallback; the one-query
\* fallback is used only when the response has no such line.
C20_LinesBeforeFallback ==
    (Returns /\ last.lm /\ last.outcome.ok
             /\ ~WellFormedList(Strip(last.outcome.text)))
        => LET lines == ParseLines(Strip(last.outcome.text), last.max_queries)
           IN lines # <<>> => /\ ret.queries = lines
                              /\ last.path = "generated"

\* C21: a call that finds the file unparseable goes on as a miss (it calls
\* the model), and when its save works the file holds the new entry and
\* nothing else: the entries the file held before it was spoilt are gone.
C21_CorruptionWipes ==
    (Returns /\ last.before.kind = "partial")
        => /\ last.lm
           /\ last.saved
                 => /\ file.kind = "json"
                    /\ DOMAIN file.map = {last.cache_key}
                    /\ file.map[last.cache_key].search_queries = ret.queries

\* a key that was in the file before the hand edit is no longer in it after
\* the call that followed: the keys of the file do not only grow
C21_Witness ==
    /\ Returns
    /\ last.before.kind = "partial"
    /\ last.saved
    /\ file.kind = "json"
    /\ \E k \in DOMAIN first : k \notin DOMAIN file.map

(***************************************************************************)
(* Properties of search_news.                                              *)
(***************************************************************************)
\* the places of the concatenated results: article j of the answer to query i
Places ==
    UNION {{<<i, j>> : j \in 1..Len(found.outcomes[i].articles)} :
              i \in 1..Len(found.outcomes)}

\* place p comes before place q in the concatenation
Before(p, q) == p[1] < q[1] \/ (p[1] = q[1] /\ p[2] < q[2])

\* the article at a place, with the tag of its query
At(p) ==
    [found.outcomes[p[1]].articles[p[2]]
        EXCEPT !.search_query = Some(found.queries[p[1]])]

\* the first place of the concatenation whose article has the url
FirstPlace(url) ==
    CHOOSE p \in Places :
        /\ At(p).url = url
        /\ \A q \in Places : At(q).url = url => ~Before(q, p)

\* C5: the result of search_news holds no two articles of the same url;
\* each is the first article of its url in the concatenated results, the
\* order is that of the concatenation, and every url of the concatenation
\* is in the result.
C5_Dedup ==
    (found.called /\ ~found.raised) =>
        LET R == found.articles
        IN /\ \A m, n \in 1..Len(R) : m # n => R[m].url # R[n].url
           /\ \A n \in 1..Len(R) :
                 /\ \E p \in Places : At(p).url = R[n].url
                 /\ R[n] = At(FirstPlace(R[n].url))
           /\ \A m, n \in 1..Len(R) :
                 m < n => Before(FirstPlace(R[m].url), FirstPlace(R[n].url))
           /\ \A p \in Places :
                 HasUrl(At(p)) => \E n \in 1..Len(R) : R[n].url = At(p).url

\* urls A, B, A across two queries give the first A, then B
C5_Witness ==
    /\ found.called
    /\ found.outcomes = <<Ok(<<ArtA>>), Ok(<<ArtB, ArtA2>>)>>
    /\ Len(found.articles) = 2
    /\ found.articles[1].title = ArtA.title
    /\ found.articles[2].url = Some(UrlB)

\* C6: search_news makes a request for every query whatever the requests
\* before it did, does not raise, returns every url the answered queries
\* gave, and returns only articles of answered queries.
C6_PartialFailure ==
    found.called =>
        LET R == found.articles
        IN /\ ~found.raised
           /\ found.requests = found.queries
           /\ \A p \in Places :
                 HasUrl(At(p)) => \E n \in 1..Len(R) : R[n].url = At(p).url
           /\ \A n \in 1..Len(R) :
                 \E p \in Places : /\ found.outcomes[p[1]].kind = "ok"
                                   /\ R[n] = At(p)

\* query 2 of 3 raises; queries 1 and 3 give their articles
C6_Witness ==
    /\ found.called
    /\ Len(found.queries) = 3
    /\ found.outcomes[1].kind = "ok"
    /\ found.outcomes[2].kind = "raise"
    /\ found.outcomes[3].kind = "ok"
    /\ \E n \in 1..Len(found.articles) :
          found.articles[n].search_query = Some(found.queries[1])
    /\ \E n \in 1..Len(found.articles) :
          found.articles[n].search_query = Some(found.queries[3])

(***************************************************************************)
(* Properties of synthesize_news.                                          *)
(***************************************************************************)
\* C13: when synthesize_news is given articles and its call of the model
\* fails, it returns the error message "Error processing news articles."
\* and no exception leaves it.
C13_FailureContained ==
    (synth.called /\ synth.articles # <<>> /\ synth.lm /\ ~synth.outcome.ok)
        => synth.result = Sentinel(ErrorMessage)

\* two articles, the model call raises, the error message comes back
C13_Witness ==
    /\ synth.called
    /\ synth.articles = <<ArtLong, ArtA>>
    /\ synth.lm
    /\ ~synth.outcome.ok
    /\ synth.result.kind = "sentinel"
    /\ synth.result.sentinel = ErrorMessage

\* C14: synthesize_news given no article returns the message "No recent
\* news articles found for your query." and does not call the model,
\* whatever max_headlines is.
C14_EmptyInput ==
    (synth.called /\ synth.articles = <<>>)
        => /\ synth.result = Sentinel(NoArticlesMessage)
           /\ ~synth.lm

\* a call with no article and max_headlines = 2
C14_Witness ==
    /\ synth.called
    /\ synth.articles = <<>>
    /\ synth.max_headlines = 2
    /\ synth.result.kind = "sentinel"
    /\ synth.result.sentinel = NoArticlesMessage

\* the text the model wrote, as line 370 strips it
RawText == Strip(synth.outcome.text)

BracketChars == {"(", ")", "[", "]"}

\* the length of the scheme (http:// or https://) at the head of t, or 0
SchemeLength(t) ==
    IF StartsWith(t, Https) THEN Len(Https)
    ELSE IF StartsWith(t, Http) THEN Len(Http) ELSE 0

\* the text t from place p on
From(t, p) == SubSeq(t, p, Len(t))

\* the places of t where a url starts: a scheme that does not continue a
\* word, with at least one character after it that is neither white space
\* nor a bracket
UrlPlaces(t) ==
    {p \in 1..Len(t) :
        /\ SchemeLength(From(t, p)) > 0
        /\ (p = 1 \/ t[p - 1] \in Whitespace \cup BracketChars)
        /\ RunLength(From(t, p), Whitespace \cup BracketChars)
               > SchemeLength(From(t, p))}

\* the url that starts at place p: up to the next white space or bracket
UrlAt(t, p) ==
    SubSeq(t, p, p + RunLength(From(t, p), Whitespace \cup BracketChars) - 1)

\* the url at place p is the target of a link: ...](url)
Linked(t, p) ==
    LET end == p + Len(UrlAt(t, p))
    IN /\ p >= 3
       /\ t[p - 2] = "]"
       /\ t[p - 1] = "("
       /\ end <= Len(t)
       /\ t[end] = ")"

\* C16: every url of the text synthesize_news returns is the target of a
\* markdown link and is, whole, a url of the text the model wrote: none is
\* left bare and none is cut short.
C16_LinkIntegrity ==
    (synth.called /\ synth.result.kind = "digest")
        => \A p \in UrlPlaces(synth.result.text) :
              /\ Linked(synth.result.text, p)
              /\ \E q \in UrlPlaces(RawText) :
                    UrlAt(synth.result.text, p) = UrlAt(RawText, q)

\* every url of t stands free: no bracket right before its scheme and none
\* from there to the next white space
FreeUrls(t) ==
    \A p \in 1..Len(t) :
        SchemeLength(From(t, p)) > 0
            => /\ (p = 1 \/ t[p - 1] \notin BracketChars)
               /\ \A i \in p..(p + RunLength(From(t, p), Whitespace) - 1) :
                     t[i] \notin BracketChars

\* the link a url is to become: labelled with the title, cut to 50
\* characters, of the first of the first max_headlines articles at that
\* url, or with Read More when there is none
ExpectedLink(url, articles, max_headlines) ==
    LET hits == {i \in 1..Len(articles) :
                    i <= max_headlines /\ articles[i].url = Some(url)}
        label == IF hits = {} THEN <<"R", "e", "a", "d", " ", "M", "o", "r", "e">>
                 ELSE Slice(articles[CHOOSE i \in hits : \A j \in hits : i <= j].title,
                            0, 50)
    IN <<"[">> \o label \o <<"]", "(">> \o url \o <<")">>

\* the text t with every url (a scheme and the characters up to the next
\* white space) replaced by the link it is to become
RECURSIVE Relabel(_, _, _)
Relabel(t, articles, max_headlines) ==
    IF t = <<>> THEN <<>>
    ELSE LET run == RunLength(t, Whitespace)
         IN IF SchemeLength(t) > 0 /\ run > SchemeLength(t)
            THEN ExpectedLink(SubSeq(t, 1, run), articles, max_headlines)
                 \o Relabel(From(t, run + 1), articles, max_headlines)
            ELSE <<Head(t)>> \o Relabel(Tail(t), articles, max_headlines)

C7_FaultIsolation == mpc # "crashed"

\* C15: for a topic whose search gives no article, main goes from the
\* search to the skip: synthesize_news is not invoked for the topic, no
\* issue or comment is created, and the loop goes on to the next topic.
C15_ZeroArticles ==
    \A i \in 1..Len(posts) :
        posts[i].kind = "skip"
            => /\ ~posts[i].synthesized
               /\ ~posts[i].created
               /\ (ti > posts[i].topic \/ mpc = "done")

\* C22: for every topic main asks GitHub for exactly one issue if its
\* search gave at least one article and for none otherwise; the request is
\* made after synthesize_news has returned and carries what it returned,
\* the error message included.
C22_PublishOnce ==
    /\ \A i \in 1..Len(posts) :
          posts[i].kind = "issue"
              => /\ posts[i].synthesized
                 /\ posts[i].body.kind \in {"digest", "sentinel"}
                 /\ \A j \in 1..Len(posts) :
                       (j # i /\ posts[j].topic = posts[i].topic)
                           => posts[j].kind # "issue"
    /\ (mpc \in {"done", "crashed"} /\ found.called /\ found.articles # <<>>
           /\ synth.called /\ synth.topic = ti)
           => \E i \in 1..Len(posts) :
                 posts[i].topic = ti /\ posts[i].kind = "issue"
====
